---- MODULE Spec2Model ----
(***************************************************************************)
(* redux-ui-state: the keyed UI state branch, its reducer, the memoized    *)
(* selection pipeline (uiStateSelector) and the setter (setUIStateSelector)*)
(* modelled as a state machine over one Redux store and two wrapped        *)
(* component instances.                                                    *)
(***************************************************************************)
EXTENDS Integers, FiniteSets, Sequences, TLC

\* ---------------------------------------------------------------- bounds
\* Number of actions the store may receive after its construction.
MaxDispatch == 2
Instances == {1, 2}

\* ------------------------------------------------------------- JS values
\* A JavaScript value is a record [t, ref, v]: its typeof tag, its identity
\* (0 for primitives, compared by value) and its contents.
Undefined == [t |-> "undefined", ref |-> 0, v |-> ""]
Str(s) == [t |-> "string", ref |-> 0, v |-> s]
Num(n) == [t |-> "number", ref |-> 0, v |-> n]
Fn(name) == [t |-> "function", ref |-> 0, v |-> name]
Obj(r, o) == [t |-> "object", ref |-> r, v |-> o]

\* The contents of {}: an object with no own properties.
EmptyObject == [k \in {} |-> 0]

\* JavaScript truthiness, as tested by `!x`.
Truthy(x) ==
  CASE x.t = "undefined" -> FALSE
    [] x.t = "string" -> x.v # ""
    [] x.t = "number" -> x.v # "0"
    [] OTHER -> TRUE

\* Strict equality ===: primitives by value, objects by reference.
StrictEq(x, y) ==
  /\ x.t = y.t
  /\ IF x.t = "object" THEN x.ref = y.ref ELSE x.v = y.v

\* Property read obj[name]; a missing property reads as undefined.
GetProp(o, name) == IF name \in DOMAIN o.v THEN o.v[name] ELSE Undefined

\* Property-key coercion of `components[id]` and of the computed key `[id]:`.
ToKey(x) == IF x.t = "undefined" THEN "undefined" ELSE x.v

\* The partial updates the setters are invoked with.
Partials == {EmptyObject, [f |-> 1], [f |-> 0, g |-> 1]}

\* ------------------------------------------------------------ utils.merge
\* Object.assign skips undefined sources.
OwnProps(o) == IF o.t = "object" THEN o.v ELSE EmptyObject

\* Mutant: the update replaces the prior value instead of being merged into it.
mergeReplacing(obj1, obj2, r) == Obj(r, OwnProps(obj2))

\* Mutant: the sources are copied in the wrong order, so the properties of
\* the first win.
mergeSwapped(obj1, obj2, r) ==
  LET a == OwnProps(obj1)
      b == OwnProps(obj2)
  IN Obj(r, [k \in DOMAIN a \cup DOMAIN b |-> IF k \in DOMAIN a THEN a[k] ELSE b[k]])

\* Mutant: the second source is not copied.
mergeFirstOnly(obj1, obj2, r) == Obj(r, OwnProps(obj1))

merge(obj1, obj2, r) ==
  LET a == OwnProps(obj1)
      b == OwnProps(obj2)
  IN Obj(r, [k \in DOMAIN a \cup DOMAIN b |-> IF k \in DOMAIN b THEN b[k] ELSE a[k]])

\* ------------------------------------------------------ actions, reducer
SET_UI_STATE == "SET_UI_STATE"

setUIState(payload) == [type |-> SET_UI_STATE, payload |-> payload]

\* Redux's own initial action and any action of another part of the app.
InitAction == [type |-> "@@redux/INIT", payload |-> [id |-> Undefined, state |-> Undefined]]
OtherAction == [type |-> "OTHER", payload |-> [id |-> Undefined, state |-> Undefined]]

\* The branch produced when the reducer is invoked with no prior branch.
initialState(r) == Obj(r, [components |-> Obj(r, EmptyObject)])

\* Mutant: on an action that is not the Mutation Action the reducer returns a
\* copy of the branch instead of the branch itself.
reducerCopying(branch, action, r) ==
  LET state == IF branch.t = "undefined" THEN initialState(r) ELSE branch
      components == state.v.components
      key == ToKey(action.payload.id)
      entry == merge(GetProp(components, key), action.payload.state, r)
  IN IF action.type = SET_UI_STATE
       THEN Obj(r, [components |-> merge(components, Obj(0, [k \in {key} |-> entry]), r)])
       ELSE Obj(r, state.v)

\* reduce(branch | undefined, action): objects allocated by this call get ref r.
reducer(branch, action, r) ==
  LET state == IF branch.t = "undefined" THEN initialState(r) ELSE branch
      components == state.v.components
      key == ToKey(action.payload.id)
      entry == merge(GetProp(components, key), action.payload.state, r)
  IN IF action.type = SET_UI_STATE
       THEN Obj(r, [components |-> merge(components, Obj(0, [k \in {key} |-> entry]), r)])
       ELSE state

\* ------------------------------------------------------------- the store
DEFAULT_BRANCH_NAME == "uiState"
Slots == {DEFAULT_BRANCH_NAME, "alt"}
SlotIndex(s) == IF s = DEFAULT_BRANCH_NAME THEN 0 ELSE 1

\* The store's root reducer: the branch reducer composed under every mounted
\* slot; the root object is replaced exactly when some slice changed.
rootReducer(state, action, otherChanged, r) ==
  LET next == [s \in DOMAIN state.v |-> reducer(state.v[s], action, r + SlotIndex(s))]
      hasChanged == otherChanged \/ \E s \in DOMAIN state.v : next[s].ref # state.v[s].ref
  IN IF hasChanged THEN Obj(r, next) ELSE state

\* A branch handed to createStore as preloaded state.
PreloadedBranch ==
  Obj(2, [components |-> Obj(2, [b |-> Obj(2, [f |-> 0, g |-> 0]), c |-> Obj(2, [g |-> 1])])])

VARIABLES
  app,         \* configuration: the store's wiring and the instances' wrappings
  store,       \* the state tree held by the Redux store
  dispatched,  \* number of actions the store has reduced since construction
  reduced,     \* keys of the Mutation Actions the store has reduced so far
  props,       \* instance -> the props object of its latest render
  setter,      \* instance -> the props captured by its setUIState closure
  memo,        \* the memoization cells of the three module-level selectors
  prev,        \* the latest dispatch: the action, who sent it, the tree before it
  last,        \* what the latest operation was and how it ended
  returned,    \* the components map and the id of the latest read that returned
  earlier      \* the dispatch before the latest: the write it made, if any

vars == <<app, store, dispatched, reduced, props, setter, memo, prev, last, returned, earlier>>

\* ------------------------------------------------------- id resolution
idIsString(id) == id.t = "string"

idIsFunction(id) == id.t = "function"

\* The id functions a wrapping may be configured with: props => props.key.
ApplyIdFunction(id, p) == GetProp(p, "key")

\* Mutant: a function id is not invoked with the props.
getStringFromIdUncalled(id, p) == IF idIsString(id) THEN id ELSE Undefined

getStringFromId(id, p) ==
  IF idIsString(id) THEN id
  ELSE IF idIsFunction(id) THEN ApplyIdFunction(id, p)
  ELSE Undefined

\* How a call ends: with a returned value or with a thrown error.
Returned(v) == [kind |-> "value", val |-> v]
Thrown(msg) == [kind |-> "throw", val |-> Str(msg)]

idSelector(state, p) ==
  IF ~Truthy(GetProp(p, "uiStateId"))
    THEN Thrown("Couldn't find uiStateId prop")
    ELSE Returned(getStringFromId(GetProp(p, "uiStateId"), p))

\* ------------------------------------------------------------ selectors
stateSelector(state, p) == state

defaultUIStateBranchSelector(state) == GetProp(state, DEFAULT_BRANCH_NAME)

\* Applying a branch locator (a function of the whole state tree).
ApplyBranchSelector(selector, state) ==
  CASE selector.v = "defaultUIStateBranchSelector" -> defaultUIStateBranchSelector(state)
    [] OTHER -> GetProp(state, "alt")

\* Mutant: the locator carried by the props is ignored.
uiStateBranchSelectorSelectorDefault(state, p) == Fn("defaultUIStateBranchSelector")

uiStateBranchSelectorSelector(state, p) ==
  IF Truthy(p) /\ Truthy(GetProp(p, "uiStateBranchSelector"))
    THEN GetProp(p, "uiStateBranchSelector")
    ELSE Fn("defaultUIStateBranchSelector")

\* reselect's defaultMemoize: one cell holding the last arguments and result.
\* Arguments are compared with ===, so a cell keeps of an object only its
\* identity.
Handle(x) == IF x.t = "object" THEN Obj(x.ref, EmptyObject) ELSE x
Handles(args) == [n \in DOMAIN args |-> Handle(args[n])]
EmptyCell == [valid |-> FALSE, args |-> <<>>, result |-> Undefined]

\* Mutant: only the last argument is compared, so a selector called with a
\* new state tree and the same props returns its previous result.
areLastArgumentsEqual(cell, args) ==
  /\ cell.valid
  /\ Len(cell.args) = Len(args)
  /\ StrictEq(cell.args[Len(args)], args[Len(args)])

areArgumentsShallowlyEqual(cell, args) ==
  /\ cell.valid
  /\ Len(cell.args) = Len(args)
  /\ \A n \in DOMAIN args : StrictEq(cell.args[n], args[n])

\* Mutant: once a result function has a result it returns it for any arguments.
memoizedResultFuncSticky(m, inner, args, computed) ==
  IF m[inner].valid
    THEN [memo |-> m, out |-> Returned(m[inner].result), ran |-> FALSE, warned |-> FALSE]
  ELSE IF computed.kind = "throw"
    THEN [memo |-> m, out |-> computed, ran |-> TRUE, warned |-> FALSE]
  ELSE [memo |-> [m EXCEPT ![inner] = [valid |-> TRUE, args |-> Handles(args),
                                       result |-> computed.val]],
        out |-> computed, ran |-> TRUE, warned |-> FALSE]

\* The memoized result function of a selector (cell `inner` of the cells m)
\* called with args: `computed` is how the result function itself ends when
\* called with them. A throw leaves the cell as it was. The call returns the
\* cells as it leaves them, how it ended, and whether the result function ran.
memoizedResultFunc(m, inner, args, computed) ==
  IF areArgumentsShallowlyEqual(m[inner], args)
    THEN [memo |-> m, out |-> Returned(m[inner].result), ran |-> FALSE, warned |-> FALSE]
  ELSE IF computed.kind = "throw"
    THEN [memo |-> m, out |-> computed, ran |-> TRUE, warned |-> FALSE]
  ELSE [memo |-> [m EXCEPT ![inner] = [valid |-> TRUE, args |-> Handles(args),
                                       result |-> computed.val]],
        out |-> computed, ran |-> TRUE, warned |-> FALSE]

\* A selector made by createSelector (cell `outer` of the cells m) called with
\* (state, p): called with the arguments of its last call that returned, it
\* returns that result again; otherwise it ends as `body` does, the evaluation
\* of its dependencies followed by its memoized result function.
createSelector(m, outer, state, p, body) ==
  IF areArgumentsShallowlyEqual(m[outer], <<state, p>>)
    THEN [memo |-> m, out |-> Returned(m[outer].result), ran |-> FALSE, warned |-> FALSE]
  ELSE IF body.out.kind = "throw"
    THEN body
  ELSE [body EXCEPT !.memo[outer] = [valid |-> TRUE, args |-> Handles(<<state, p>>),
                                     result |-> body.out.val]]

\* Mutant: a locator that yields nothing falls back to an empty branch.
branchResultFuncFallback(selector, state) ==
  LET branch == ApplyBranchSelector(selector, state)
  IN IF ~Truthy(branch) THEN Returned(initialState(0)) ELSE Returned(branch)

branchResultFunc(selector, state) ==
  LET branch == ApplyBranchSelector(selector, state)
  IN IF ~Truthy(branch)
       THEN Thrown("Could not select UI state branch from the store")
       ELSE Returned(branch)

uiStateBranchSelector(m, state, p) ==
  createSelector(m, "branchOuter", state, p,
    memoizedResultFunc(m, "branchInner",
      <<uiStateBranchSelectorSelector(state, p), stateSelector(state, p)>>,
      branchResultFunc(uiStateBranchSelectorSelector(state, p), stateSelector(state, p))))

componentsResultFunc(uiStateBranch) == Returned(GetProp(uiStateBranch, "components"))

\* The dependency of uiStateComponentsSelector ended as dep: a throw
\* propagates, a value goes to the memoized result function.
componentsBody(dep) ==
  IF dep.out.kind = "throw"
    THEN dep
    ELSE memoizedResultFunc(dep.memo, "compInner", <<dep.out.val>>,
                            componentsResultFunc(dep.out.val))

uiStateComponentsSelector(m, state, p) ==
  createSelector(m, "compOuter", state, p, componentsBody(uiStateBranchSelector(m, state, p)))

\* Mutant: the lookup ignores the id and takes whichever entry there is.
uiStateResultFuncAnyKey(components, id) ==
  IF DOMAIN components.v = {}
    THEN Returned(Undefined)
    ELSE Returned(components.v[CHOOSE k \in DOMAIN components.v : TRUE])

\* Mutant: a key without entry is an error instead of undefined.
uiStateResultFuncStrict(components, id) ==
  IF ToKey(id) \in DOMAIN components.v
    THEN Returned(components.v[ToKey(id)])
    ELSE Thrown("found undefined state for key")

uiStateResultFunc(components, id) == Returned(GetProp(components, ToKey(id)))

\* Mutant: the warning is emitted for every read that finds no state, also
\* when the memoized result function did not run.
warnIfUndefinedAlways(r) == [r EXCEPT !.warned = r.out.kind = "value" /\ ~Truthy(r.out.val)]

\* console.warn is called when the result function ran and found no state.
warnIfUndefined(r) == [r EXCEPT !.warned = r.ran /\ r.out.kind = "value" /\ ~Truthy(r.out.val)]

\* The dependencies of uiStateSelector ended as dep (uiStateComponentsSelector)
\* and then id (idSelector): a throw of either propagates.
uiStateBody(dep, id) ==
  IF dep.out.kind = "throw"
    THEN dep
  ELSE IF id.kind = "throw"
    THEN [dep EXCEPT !.out = id]
  ELSE warnIfUndefined(memoizedResultFunc(dep.memo, "uiInner", <<dep.out.val, id.val>>,
                                          uiStateResultFunc(dep.out.val, id.val)))

uiStateSelector(m, state, p) ==
  createSelector(m, "uiOuter", state, p,
                 uiStateBody(uiStateComponentsSelector(m, state, p), idSelector(state, p)))

\* Mutant: the setter resolves the id from the props its instance has now,
\* not from the props it was built with.
setUIStateSelectorLatestProps(p, state) ==
  LET now == props[CHOOSE i \in Instances : setter[i] = p]
      id == idSelector(Undefined, now)
  IN IF id.kind = "throw"
       THEN id
       ELSE Returned(setUIState([id |-> id.val, state |-> state]))

\* Mutant: the setter dispatches the id but drops the partial state.
setUIStateSelectorNoState(p, state) ==
  LET id == idSelector(Undefined, p)
  IN IF id.kind = "throw"
       THEN id
       ELSE Returned(setUIState([id |-> id.val, state |-> Obj(0, EmptyObject)]))

setUIStateSelector(p, state) ==
  LET id == idSelector(Undefined, p)
  IN IF id.kind = "throw"
       THEN id
       ELSE Returned(setUIState([id |-> id.val, state |-> state]))

\* ------------------------------------------------------------ operations
\* What a wrapping fixes for its instances: the id and the branch locator.
Wrapping(id, sel) == [uiStateId |-> id, uiStateBranchSelector |-> sel]

\* An application: where the reducer is mounted (and what the store is
\* preloaded with there), how the two instances are wrapped, and the values
\* the own prop `key` takes.
App(pre, w1, w2, ks) == [preload |-> pre, wrap |-> <<w1, w2>>, keys |-> ks]

DefaultOnly == [uiState |-> Undefined]

Apps ==
  { \* two literal ids, distinct or shared
    App(DefaultOnly, Wrapping(Str("a"), Undefined), Wrapping(Str("b"), Undefined), {Undefined}),
    App(DefaultOnly, Wrapping(Str("a"), Undefined), Wrapping(Str("a"), Undefined), {Undefined}),
    \* a custom locator: beside a differing default branch, instead of the
    \* default branch, and pointing where no reducer is mounted
    App([uiState |-> Undefined, alt |-> PreloadedBranch],
        Wrapping(Str("b"), Undefined), Wrapping(Str("b"), Fn("selectAlt")), {Undefined}),
    App([alt |-> Undefined],
        Wrapping(Str("b"), Undefined), Wrapping(Str("b"), Fn("selectAlt")), {Undefined}),
    App(DefaultOnly,
        Wrapping(Str("a"), Undefined), Wrapping(Str("a"), Fn("selectAlt")), {Undefined}),
    \* an id derived from the props, beside a literal one
    App(DefaultOnly, Wrapping(Fn("propsKey"), Undefined), Wrapping(Str("a"), Undefined),
        {Str("a"), Str("b")}),
    App(DefaultOnly, Wrapping(Fn("propsKey"), Undefined), Wrapping(Str("a"), Undefined),
        {Undefined}),
    \* no id, and an id that is neither a string nor a function
    App(DefaultOnly, Wrapping(Undefined, Undefined), Wrapping(Num("5"), Undefined), {Undefined}) }

\* The own props an instance may be rendered with: props.key.
KeyIndex(k) == CASE k = Undefined -> 0 [] k = Str("a") -> 1 [] k = Str("b") -> 2 [] OTHER -> 3
OwnKeys(i) == IF app.wrap[i].uiStateId.t = "function" THEN app.keys ELSE {Undefined}

\* The props object of instance i rendered with own key k (one object per
\* instance and own props).
PropsOf(i, k) ==
  Obj(4 * i + KeyIndex(k),
      [uiStateId |-> app.wrap[i].uiStateId,
       uiStateBranchSelector |-> app.wrap[i].uiStateBranchSelector,
       key |-> k])

\* The selectors' cells when the module is loaded.
EmptyMemo ==
  [branchOuter |-> EmptyCell, branchInner |-> EmptyCell,
   compOuter |-> EmptyCell, compInner |-> EmptyCell,
   uiOuter |-> EmptyCell, uiInner |-> EmptyCell]

\* Refs of the objects allocated while reducing the next action.
FreshRef == 2 * dispatched + 3

Idle == [op |-> "none"]

\* What a dispatch d (a value of `prev`) wrote: for a Mutation Action sent by a
\* setter, the key, who sent it, the partial the setter was invoked with and
\* the entry each mounted branch held at the key before it.
NoWrite == [valid |-> FALSE]
Written(d) ==
  IF d.action.type = SET_UI_STATE
    THEN [valid |-> TRUE, key |-> ToKey(d.action.payload.id), by |-> d.by,
          partial |-> d.partial,
          base |-> [s \in DOMAIN d.state.v |->
                      IF ToKey(d.action.payload.id) \in DOMAIN d.state.v[s].v.components.v
                        THEN d.state.v[s].v.components.v[ToKey(d.action.payload.id)].v
                        ELSE EmptyObject]]
    ELSE NoWrite

\* createStore(rootReducer, preloadedState): Redux reduces its INIT action.
Init ==
  /\ app \in Apps
  /\ store = Obj(1, [s \in DOMAIN app.preload |->
                       reducer(app.preload[s], InitAction, 1 + SlotIndex(s))])
  /\ dispatched = 0
  /\ reduced = {}
  /\ props = [i \in Instances |-> Undefined]
  /\ setter = [i \in Instances |-> Undefined]
  /\ memo = EmptyMemo
  /\ prev = [state |-> store, action |-> InitAction, by |-> 0, partial |-> EmptyObject]
  /\ last = Idle
  /\ returned = [valid |-> FALSE, components |-> 0, id |-> Undefined]
  /\ earlier = NoWrite

\* The host renders instance i with own props {key: k}.
Render(i, k) ==
  /\ props[i] # PropsOf(i, k)
  /\ props' = [props EXCEPT ![i] = PropsOf(i, k)]
  /\ UNCHANGED <<app, returned, store, dispatched, reduced, setter, memo, prev, last, earlier>>

\* mapDispatchToProps: setUIStateSelector(dispatch, props) builds the setter.
Bind(i) ==
  /\ props[i] # Undefined
  /\ setter[i] # props[i]
  /\ setter' = [setter EXCEPT ![i] = props[i]]
  /\ UNCHANGED <<app, returned, store, dispatched, reduced, props, memo, prev, last, earlier>>

\* What a read with props p that returns looks up on the state tree: the
\* components map (its identity) of the located branch, and the resolved id.
LookedUp(state, p) ==
  LET branch == ApplyBranchSelector(uiStateBranchSelectorSelector(state, p), state)
  IN [valid |-> TRUE,
      components |-> IF branch.t = "object" THEN GetProp(branch, "components").ref ELSE 0,
      id |-> idSelector(state, p).val]

\* A read with props p looks up what the latest read that returned looked up:
\* the same components map and the same id.
Repeats(latest, state, p) ==
  /\ latest.valid
  /\ Truthy(ApplyBranchSelector(uiStateBranchSelectorSelector(state, p), state))
  /\ idSelector(state, p).kind = "value"
  /\ latest.components = LookedUp(state, p).components
  /\ StrictEq(latest.id, LookedUp(state, p).id)

\* A cell holds the entry returned by a call with another state tree and other
\* props, and that entry is not the value val.
HeldOther(cell, state, p, val) ==
  /\ cell.valid
  /\ ~StrictEq(cell.args[1], state)
  /\ ~StrictEq(cell.args[2], p)
  /\ cell.result.t = "object"
  /\ cell.result # val

\* mapStateToProps: uiStateSelector(state, props) for instance i.
Select(i) ==
  /\ props[i] # Undefined
  /\ LET r == uiStateSelector(memo, store, props[i])
     IN /\ memo' = r.memo
        /\ last' = [op |-> "select", inst |-> i, p |-> props[i], state |-> store.ref,
                    kind |-> r.out.kind, val |-> r.out.val, warned |-> r.warned,
                    heldOther |-> HeldOther(memo.uiOuter, store, props[i], r.out.val),
                    againProps |-> /\ last.op = "select"
                                   /\ last.state = store.ref
                                   /\ last.p = props[i],
                    repeats |-> Repeats(returned, store, props[i])]
        /\ returned' = IF r.out.kind = "value" THEN LookedUp(store, props[i]) ELSE returned
  /\ UNCHANGED <<app, store, dispatched, reduced, props, setter, prev, earlier>>

\* The props a caller may hand to a selector it calls directly: those of a
\* rendered instance, or none at all.
CallerProps == {props[i] : i \in Instances} \cup {Undefined}

\* A direct call uiStateBranchSelector(state, p) of the exported selector.
SelectBranch(p) ==
  /\ LET r == uiStateBranchSelector(memo, store, p)
     IN /\ memo' = r.memo
        /\ last' = [op |-> "branch", p |-> p, state |-> store.ref,
                    kind |-> r.out.kind, val |-> r.out.val]
  /\ UNCHANGED <<app, returned, store, dispatched, reduced, props, setter, prev, earlier>>

\* store.dispatch(action): the root reducer runs to completion.
Dispatch(action, otherChanged, i, P) ==
  /\ store' = rootReducer(store, action, otherChanged, FreshRef)
  /\ prev' = [state |-> store, action |-> action, by |-> i, partial |-> P]
  /\ earlier' = Written(prev)
  /\ dispatched' = dispatched + 1
  /\ reduced' = IF action.type = SET_UI_STATE
                  THEN reduced \cup {ToKey(action.payload.id)}
                  ELSE reduced

\* The wrapped component of instance i invokes its setter with partial P.
SetUIState(i, P) ==
  /\ setter[i] # Undefined
  /\ dispatched < MaxDispatch
  /\ LET call == setUIStateSelector(setter[i], Obj(0, P))
     IN /\ last' = [op |-> "set", inst |-> i, p |-> setter[i], partial |-> P,
                    kind |-> call.kind, val |-> call.val, before |-> dispatched]
        /\ IF call.kind = "throw"
             THEN UNCHANGED <<store, prev, dispatched, reduced, earlier>>
             ELSE Dispatch(call.val, FALSE, i, P)
  /\ UNCHANGED <<app, returned, props, setter, memo>>

\* Another part of the application dispatches an action of its own.
DispatchOther(otherChanged) ==
  /\ dispatched < MaxDispatch
  /\ Dispatch(OtherAction, otherChanged, 0, EmptyObject)
  /\ last' = [op |-> "other", changed |-> otherChanged]
  /\ UNCHANGED <<app, returned, props, setter, memo>>

Next ==
  \/ \E i \in Instances : \E k \in OwnKeys(i) : Render(i, k)
  \/ \E i \in Instances : Bind(i)
  \/ \E i \in Instances : Select(i)
  \/ \E i \in Instances, P \in Partials : SetUIState(i, P)
  \/ \E otherChanged \in BOOLEAN : DispatchOther(otherChanged)

Spec == Init /\ [][Next]_vars

\* The application as seen by a caller of the exported uiStateBranchSelector:
\* renders, setters and dispatches as above, and direct reads of the branch.
NextBranch ==
  \/ \E i \in Instances : \E k \in OwnKeys(i) : Render(i, k)
  \/ \E i \in Instances : Bind(i)
  \/ \E p \in CallerProps : SelectBranch(p)
  \/ \E i \in Instances, P \in Partials : SetUIState(i, P)
  \/ \E otherChanged \in BOOLEAN : DispatchOther(otherChanged)

BranchSpec == Init /\ [][NextBranch]_vars

\* The partial updates of writers to one key: two of them touch disjoint
\* fields, two of them the same field.
WriterPartials == {[f |-> 1], [g |-> 0], [f |-> 0, g |-> 1]}

\* The application as seen by its writers: renders, setters built and
\* invoked, and the dispatches of other parts of the application.
NextWriters ==
  \/ \E i \in Instances : \E k \in OwnKeys(i) : Render(i, k)
  \/ \E i \in Instances : Bind(i)
  \/ \E i \in Instances, P \in WriterPartials : SetUIState(i, P)
  \/ \E otherChanged \in BOOLEAN : DispatchOther(otherChanged)

WriterSpec == Init /\ [][NextWriters]_vars

\* ---------------------------------------------------------------- claims
\* The keyed entries of the branch mounted at slot s of a state tree.
EntriesAt(state, s) == state.v[s].v.components.v

\* {...S, ...P}: every field of P with P's value, every other field of S kept.
ShallowUnion(S, P) == [f \in DOMAIN S \cup DOMAIN P |-> IF f \in DOMAIN P THEN P[f] ELSE S[f]]

\* The contents of the entry at key in a map of entries ({} when absent).
PriorEntry(entries, key) == IF key \in DOMAIN entries THEN entries[key].v ELSE EmptyObject

\* The latest dispatch was a Mutation Action.
MutationReduced == prev.action.type = SET_UI_STATE
MutatedKey == ToKey(prev.action.payload.id)
MutationPartial == prev.action.payload.state.v

\* The partial update the setter behind the latest dispatch was invoked with.
SetterPartial == prev.partial

\* C1: reducing a Mutation Action {id, P} leaves, in every mounted branch, an
\* entry for id equal to {...S, ...P} (S the prior entry, {} when absent), and
\* every other id's entry is the very object it was before.
C1_MergeIsShallow ==
  MutationReduced =>
    \A s \in DOMAIN store.v :
      LET before == EntriesAt(prev.state, s)
          after == EntriesAt(store, s)
      IN /\ DOMAIN after = DOMAIN before \cup {MutatedKey}
         /\ after[MutatedKey].v = ShallowUnion(PriorEntry(before, MutatedKey), MutationPartial)
         /\ \A k \in DOMAIN before \ {MutatedKey} : after[k] = before[k]

\* C1 witness: a mutation met an entry of which it overrode one field with a
\* new value and kept another, beside an entry of another id.
C1_Witness ==
  /\ MutationReduced
  /\ \E s \in DOMAIN store.v :
       LET before == EntriesAt(prev.state, s)
           S == PriorEntry(before, MutatedKey)
       IN /\ DOMAIN before \ {MutatedKey} # {}
          /\ \E f \in DOMAIN S \cap DOMAIN MutationPartial : S[f] # MutationPartial[f]
          /\ DOMAIN S \ DOMAIN MutationPartial # {}

\* The latest operation was a read by uiStateSelector / a setter invocation.
\* (No dispatch has happened since: every dispatch overwrites `last`.)
ReadDone == last.op = "select"
SetDone == last.op = "set"

\* What the props of the latest operation resolve to.
LastId == idSelector(store, last.p)
LastLocator == uiStateBranchSelectorSelector(store, last.p)
LastBranch == ApplyBranchSelector(LastLocator, store)
LastOut == [kind |-> last.kind, val |-> last.val]

\* The selection computed with fresh cells, i.e. without any memoized value.
Unmemoized(state, p) == uiStateSelector(EmptyMemo, state, p).out

\* C2: key isolation. A read for an id other than the one just mutated returns
\* what a selection with the same props returned before that mutation.
C2_KeyIsolation ==
  (/\ ReadDone
   /\ MutationReduced
   /\ LastId.kind = "value"
   /\ ~StrictEq(LastId.val, prev.action.payload.id))
    => LastOut = Unmemoized(prev.state, last.p)

\* C2 witness: an initialized entry of "b" is read after a mutation for "a".
C2_Witness ==
  /\ ReadDone
  /\ MutationReduced
  /\ prev.action.payload.id = Str("a")
  /\ LastId = Returned(Str("b"))
  /\ last.kind = "value"
  /\ last.val.t = "object"

\* The slot the locator of the latest read points at, and the entries there
\* before the latest dispatch.
LastSlot == IF LastLocator.v = "selectAlt" THEN "alt" ELSE DEFAULT_BRANCH_NAME
LastPriorEntries == EntriesAt(prev.state, LastSlot)

\* The latest read is for the id just mutated, in a branch the store holds.
ReadOfMutatedKey ==
  /\ ReadDone
  /\ MutationReduced
  /\ LastId.kind = "value"
  /\ StrictEq(LastId.val, prev.action.payload.id)
  /\ Truthy(LastBranch)

\* C3: key sharing. A read by another instance that resolves to the id just
\* mutated returns the merged entry: the prior entry with the partial update
\* merged into it.
C3_KeySharing ==
  (ReadOfMutatedKey /\ last.inst # prev.by)
    => /\ last.kind = "value"
       /\ last.val.t = "object"
       /\ last.val.v = ShallowUnion(PriorEntry(LastPriorEntries, MutatedKey), SetterPartial)

\* C3 witness: of two instances wrapped alike, one reads an entry that existed
\* before the other's mutation and was changed by it.
C3_Witness ==
  /\ ReadOfMutatedKey
  /\ last.inst # prev.by
  /\ app.wrap[1] = app.wrap[2]
  /\ PriorEntry(LastPriorEntries, MutatedKey) # EmptyObject
  /\ last.val.v # PriorEntry(LastPriorEntries, MutatedKey)

\* C4: read-after-write. Every read for the id just mutated returns an entry in
\* which each field of the partial update has the update's value, and never
\* the entry object that was there before the dispatch.
C4_ReadAfterWrite ==
  ReadOfMutatedKey
    => /\ last.kind = "value"
       /\ last.val.t = "object"
       /\ \A f \in DOMAIN SetterPartial :
            f \in DOMAIN last.val.v /\ last.val.v[f] = SetterPartial[f]
       /\ MutatedKey \in DOMAIN LastPriorEntries => last.val.ref # LastPriorEntries[MutatedKey].ref

\* C4 witness: the instance that wrote to an existing entry reads it for the
\* second time since its write.
C4_Witness ==
  /\ ReadOfMutatedKey
  /\ last.inst = prev.by
  /\ MutatedKey \in DOMAIN LastPriorEntries
  /\ SetterPartial # EmptyObject
  /\ last.againProps

\* What the Id of the latest operation's props resolves to (§4.1), whether or
\* not the operation got as far as resolving it.
LastResolved == getStringFromId(GetProp(last.p, "uiStateId"), last.p)

\* C5: a read or a setter invocation whose Id resolves to an empty or
\* undefined value ends with a thrown error, and the setter dispatches nothing.
C5_UnresolvedIdThrows ==
  ((ReadDone \/ SetDone) /\ ~Truthy(LastResolved))
    => /\ last.kind = "throw"
       /\ SetDone => dispatched = last.before

\* C6: a read whose branch locator yields no value from the state tree throws
\* the branch error, however often it is repeated.
C6_UnreachableBranchThrows ==
  (ReadDone /\ ~Truthy(LastBranch))
    => LastOut = Thrown("Could not select UI state branch from the store")

\* C6 witness: the same read is repeated on the same state tree and throws
\* again, while the cells hold the result of another instance's read.
C6_Witness ==
  /\ ReadDone
  /\ ~Truthy(LastBranch)
  /\ last.againProps
  /\ last.kind = "throw"
  /\ memo.branchOuter.valid
  /\ memo.uiOuter.valid

\* C7: a read whose branch is reachable and whose id is resolved, for a key the
\* branch has no entry for, does not throw and yields undefined.
C7_UninitializedReadIsUndefined ==
  (/\ ReadDone
   /\ Truthy(LastBranch)
   /\ LastId.kind = "value"
   /\ ToKey(LastId.val) \notin DOMAIN EntriesAt(store, LastSlot))
    => LastOut = Returned(Undefined)

\* C7 witness: a key without entry is read from a branch that holds an entry
\* for another key.
C7_Witness ==
  /\ ReadDone
  /\ Truthy(LastBranch)
  /\ LastId.kind = "value"
  /\ Truthy(LastId.val)
  /\ ToKey(LastId.val) \notin DOMAIN EntriesAt(store, LastSlot)
  /\ DOMAIN EntriesAt(store, LastSlot) # {}
  /\ last.val = Undefined

ExpectedId ==
  LET id == GetProp(last.p, "uiStateId")
  IN CASE id.t = "string" -> id
       [] id.t = "function" -> GetProp(last.p, "key")
       [] OTHER -> Undefined

\* C9: identity resolution. A setter whose props carry an id resolves it
\* without throwing: to the id itself when it is a string, to the id applied
\* to the props when it is a function, to undefined otherwise.
C9_IdResolution ==
  (SetDone /\ Truthy(GetProp(last.p, "uiStateId")))
    => /\ last.kind = "value"
       /\ last.val.payload.id = ExpectedId

\* C9 witness: a function id has been resolved against the props.
C9_Witness ==
  /\ SetDone
  /\ GetProp(last.p, "uiStateId").t = "function"
  /\ last.kind = "value"
  /\ last.val.payload.id = Str("b")

\* C10: a setter invocation that returns has dispatched exactly one action, the
\* Mutation Action whose id is resolved from the props captured when the
\* setter was built and whose state is the partial it was invoked with.
C10_SetterUsesCapturedProps ==
  (SetDone /\ last.kind = "value")
    => /\ dispatched = last.before + 1
       /\ prev.action = setUIState([id |-> ExpectedId, state |-> Obj(0, last.partial)])

\* C10 witness: the instance has been rendered with props that resolve to
\* another id since it built the setter it invokes.
C10_Witness ==
  /\ SetDone
  /\ last.kind = "value"
  /\ props[last.inst] # last.p
  /\ idSelector(store, props[last.inst]) = Returned(Str("b"))
  /\ prev.action.payload.id = Str("a")

\* The latest dispatch was of an action other than the Mutation Action.
OtherReduced == dispatched > 0 /\ prev.action.type # SET_UI_STATE

\* C11: reducing an action other than the Mutation Action returns, in every
\* mounted slot, the very branch that was there before: the same branch
\* object, the same components map, every entry identical.
C11_OtherActionKeepsBranch ==
  OtherReduced =>
    \A s \in DOMAIN store.v :
      /\ store.v[s] = prev.state.v[s]
      /\ store.v[s].v.components = prev.state.v[s].v.components
      /\ EntriesAt(store, s) = EntriesAt(prev.state, s)

\* C11 witness: another action changed another part of the state tree, so the
\* root object was replaced, while a branch that a mutation had written to
\* before stayed in place.
C11_Witness ==
  /\ OtherReduced
  /\ last.op = "other"
  /\ last.changed
  /\ store.ref # prev.state.ref
  /\ reduced # {}
  /\ \E s \in DOMAIN store.v : DOMAIN EntriesAt(store, s) # {}

\* The latest operation was a direct read of the branch.
BranchReadDone == last.op = "branch"

\* The props of the latest operation carry a branch locator.
LastCarriesLocator ==
  /\ last.p.t = "object"
  /\ "uiStateBranchSelector" \in DOMAIN last.p.v
  /\ last.p.v.uiStateBranchSelector.t = "function"

\* The branch the latest operation has to read: what the carried locator
\* (state => state.alt) yields from the state tree, and the default top-level
\* branch when the props carry none or are absent.
ExpectedBranch ==
  IF LastCarriesLocator
    THEN GetProp(store, "alt")
    ELSE GetProp(store, DEFAULT_BRANCH_NAME)

\* C12: branch-locator selection. A branch read returns exactly the branch the
\* locator carried by the props yields, also beside a differing default branch,
\* and the default top-level branch when the props carry no locator or are
\* absent; it returns whenever that branch exists.
C12_LocatorPrecedence ==
  BranchReadDone =>
    /\ last.kind = "value" => last.val = ExpectedBranch
    /\ Truthy(ExpectedBranch) => last.kind = "value"

\* C12 witness: props carrying a locator read its branch while the default
\* top-level branch exists and differs.
C12_Witness ==
  /\ BranchReadDone
  /\ LastCarriesLocator
  /\ last.kind = "value"
  /\ Truthy(GetProp(store, DEFAULT_BRANCH_NAME))
  /\ last.val # GetProp(store, DEFAULT_BRANCH_NAME)
  /\ last.val.v.components # GetProp(store, DEFAULT_BRANCH_NAME).v.components

\* What the latest read has to return: the entry at the resolved id in the
\* components map of the branch its props locate in the current state tree.
ExpectedEntry == GetProp(GetProp(ExpectedBranch, "components"), ToKey(ExpectedId))

\* C13: cache coherence. Every read through the shared selectors ends as an
\* unmemoized evaluation on the current state tree would, and one that
\* returns a value returns components[resolved id] of the current tree under
\* the instance's locator.
C13_CacheCoherence ==
  ReadDone =>
    /\ LastOut = Unmemoized(store, last.p)
    /\ last.kind = "value" => last.val = ExpectedEntry

\* C13 witness: the selector held the result of a read with other props on an
\* earlier state tree, and the read returned another entry than that one.
C13_Witness ==
  /\ ReadDone
  /\ last.kind = "value"
  /\ last.val.t = "object"
  /\ last.heldOther

\* The latest operation was a read, of a reachable branch and with a resolved
\* id, of a key the branch holds no entry for.
AbsentKeyRead ==
  /\ ReadDone
  /\ Truthy(LastBranch)
  /\ LastId.kind = "value"
  /\ ToKey(LastId.val) \notin DOMAIN EntriesAt(store, LastSlot)

\* C14 as claimed: every read of a key without entry emits a warning, a
\* repeated read with the same state and the same id included.
C14_EveryUninitializedReadWarns == AbsentKeyRead => last.warned

\* C14 as amended: a read of a key without entry emits a warning exactly when
\* it does not look up the same components map and the same id as the latest
\* read that returned; such a repeated read yields undefined without warning.
C14_WarnsUnlessRepeated ==
  AbsentKeyRead => (last.warned <=> ~last.repeats)

\* C14 witness: the read before was the same read, on the same state tree
\* with the same props, and this one stays silent.
C14_Witness ==
  /\ AbsentKeyRead
  /\ last.againProps
  /\ last.repeats
  /\ ~last.warned

\* C15: monotonic growth. Whatever action the store reduced last, every key the
\* components map of a branch held before it is still there, and every field
\* an entry had before it is still a field of that entry.
C15_MonotonicGrowth ==
  \A s \in DOMAIN store.v :
    LET before == EntriesAt(prev.state, s)
        after == EntriesAt(store, s)
    IN /\ DOMAIN before \subseteq DOMAIN after
       /\ \A k \in DOMAIN before : DOMAIN before[k].v \subseteq DOMAIN after[k].v

\* C15 witness: a partial update without one of the fields of the entry it
\* met was reduced, and the entry still has that field.
C15_Witness ==
  /\ MutationReduced
  /\ \E s \in DOMAIN store.v :
       LET before == EntriesAt(prev.state, s)
           after == EntriesAt(store, s)
       IN /\ MutatedKey \in DOMAIN before
          /\ DOMAIN MutationPartial # {}
          /\ \E f \in DOMAIN before[MutatedKey].v \ DOMAIN MutationPartial :
               f \in DOMAIN after[MutatedKey].v

\* The two latest dispatches were Mutation Actions of setters for one key.
TwoWritesToOneKey ==
  /\ MutationReduced
  /\ earlier.valid
  /\ earlier.key = MutatedKey

\* C16: writers to one key serialize. After two setters for the same id were
\* invoked with P1 and then P2, the entry is the prior entry merged with P1
\* then P2 or with P2 then P1; and when P1 and P2 touch disjoint fields, both
\* orders give the same entry, which has every field of P1 and of P2 with the
\* value that update gave it.
C16_WritersSerialize ==
  TwoWritesToOneKey =>
    \A s \in DOMAIN store.v :
      LET S == earlier.base[s]
          P1 == earlier.partial
          P2 == SetterPartial
          entry == EntriesAt(store, s)[MutatedKey].v
          P1thenP2 == ShallowUnion(ShallowUnion(S, P1), P2)
          P2thenP1 == ShallowUnion(ShallowUnion(S, P2), P1)
      IN /\ entry \in {P1thenP2, P2thenP1}
         /\ DOMAIN P1 \cap DOMAIN P2 = {} =>
              /\ P1thenP2 = P2thenP1
              /\ \A f \in DOMAIN P1 : f \in DOMAIN entry /\ entry[f] = P1[f]
              /\ \A f \in DOMAIN P2 : f \in DOMAIN entry /\ entry[f] = P2[f]

\* C16 witness: two instances wrote disjoint fields of one entry, one after
\* the other.
C16_Witness ==
  /\ TwoWritesToOneKey
  /\ earlier.by # prev.by
  /\ earlier.partial # EmptyObject
  /\ SetterPartial # EmptyObject
  /\ DOMAIN earlier.partial \cap DOMAIN SetterPartial = {}

====
